---- MODULE Spec2Model ----
(***************************************************************************)
(* Model of the usvg-parser ingestion core:                                *)
(*   - the font-family list grammar (crates/usvg-parser/src/font.rs),      *)
(*     stepped loop iteration by loop iteration over a byte buffer;        *)
(*   - the from_data / from_str / from_xmltree pipeline                    *)
(*     (crates/usvg-parser/src/lib.rs), stepped stage by stage.            *)
(* A text is a sequence of bytes; every ASCII byte is written as a         *)
(* one-character string and the two bytes of U+00E9 as "C3", "A9".         *)
(***************************************************************************)
EXTENDS Integers, Sequences, FiniteSets, TLC

VARIABLES
    text,       \* font.rs: the Stream's backing text (bytes)
    pos,        \* font.rs: the Stream's byte offset
    pc,         \* font.rs: position in parse_font_families
    families,   \* font.rs:52  the vector being built
    idents,     \* font.rs:63  idents of the unquoted element being read
    inner,      \* font.rs:10  what Stream::parse_font_families returned
    result,     \* font.rs:8   what the exported parse_font_families returned
    iterStart,  \* history: the offset at the head of the current outer iteration
    run,        \* number of the call being made (1 or 2)
    prev,       \* history: text and result of the previous call
    entry,      \* lib.rs: the entry point that was called
    data,       \* lib.rs: the bytes (or text) handed to the entry point
    env,        \* lib.rs: what the external collaborators answer for this input
    dpc,        \* lib.rs: position in the pipeline
    decoded,    \* lib.rs:219-223  the bytes handed to UTF-8 validation
    xmlInput,   \* lib.rs:236  the text and options handed to the XML parser
    stages,     \* history: the stages that ran, in order
    dresult     \* lib.rs: what the entry point returned

fontVars == <<text, pos, pc, families, idents, inner, result, iterStart, run, prev>>
dataVars == <<entry, data, env, dpc, decoded, xmlInput, stages, dresult>>
vars == <<text, pos, pc, families, idents, inner, result, iterStart, run, prev,
          entry, data, env, dpc, decoded, xmlInput, stages, dresult>>

(***************************************************************************)
(* Bounds of the model.                                                    *)
(***************************************************************************)
MaxFrags == 3
MaxWs == 1
MaxData == 3
MaxInflated == 2

(***************************************************************************)
(* Values.                                                                 *)
(***************************************************************************)
Ok(v) == [ok |-> TRUE, val |-> v, err |-> "none", at |-> 0]
Err(e, p) == [ok |-> FALSE, val |-> <<>>, err |-> e, at |-> p]
NoResult == [ok |-> FALSE, val |-> <<>>, err |-> "pending", at |-> 0]

Serif == [kind |-> "Serif", name |-> <<>>]
SansSerif == [kind |-> "SansSerif", name |-> <<>>]
Cursive == [kind |-> "Cursive", name |-> <<>>]
Fantasy == [kind |-> "Fantasy", name |-> <<>>]
Monospace == [kind |-> "Monospace", name |-> <<>>]
Named(s) == [kind |-> "Named", name |-> s]

Generics == {Serif, SansSerif, Cursive, Fantasy, Monospace}

\* A variant of to_string that writes sans-serif with a space.
to_string_space(f) ==
    CASE f.kind = "Serif" -> <<"s", "e", "r", "i", "f">>
      [] f.kind = "SansSerif" -> <<"s", "a", "n", "s", " ", "s", "e", "r", "i", "f">>
      [] f.kind = "Cursive" -> <<"c", "u", "r", "s", "i", "v", "e">>
      [] f.kind = "Fantasy" -> <<"f", "a", "n", "t", "a", "s", "y">>
      [] f.kind = "Monospace" -> <<"m", "o", "n", "o", "s", "p", "a", "c", "e">>
      [] OTHER -> f.name

to_string(f) ==
    CASE f.kind = "Serif" -> <<"s", "e", "r", "i", "f">>
      [] f.kind = "SansSerif" -> <<"s", "a", "n", "s", "-", "s", "e", "r", "i", "f">>
      [] f.kind = "Cursive" -> <<"c", "u", "r", "s", "i", "v", "e">>
      [] f.kind = "Fantasy" -> <<"f", "a", "n", "t", "a", "s", "y">>
      [] f.kind = "Monospace" -> <<"m", "o", "n", "o", "s", "p", "a", "c", "e">>
      [] OTHER -> f.name

(***************************************************************************)
(* The Stream cursor (crate::stream).                                      *)
(***************************************************************************)
Letters ==
    {"a", "b", "c", "d", "e", "f", "g", "h", "i", "j", "k", "l", "m",
     "n", "o", "p", "q", "r", "s", "t", "u", "v", "w", "x", "y", "z",
     "A", "B", "C", "D", "E", "F", "G", "H", "I", "J", "K", "L", "M",
     "N", "O", "P", "Q", "R", "S", "T", "U", "V", "W", "X", "Y", "Z"}
Digits == {"0", "1", "2", "3", "4", "5", "6", "7", "8", "9"}
LeadBytes == {"C3"}
ContBytes == {"A9"}

is_space(b) == b \in {" ", "\t", "\n", "\r"}
is_quote(b) == b \in {"'", "\""}

at_end(t, p) == p >= Len(t)

curr_byte(t, p) ==
    IF at_end(t, p) THEN Err("UnexpectedEndOfStream", 0) ELSE Ok(t[p + 1])

advance(p, n) == p + n

\* The byte length of the character that starts with byte b.
len_utf8(b) == IF b \in LeadBytes THEN 2 ELSE 1

\* self.chars().next(): the first byte of the next character, without consuming.
chars_next(t, p) ==
    IF at_end(t, p) THEN [some |-> FALSE, c |-> "", len |-> 0]
    ELSE [some |-> TRUE, c |-> t[p + 1], len |-> len_utf8(t[p + 1])]

RECURSIVE skip_spaces(_, _)
skip_spaces(t, p) ==
    IF ~at_end(t, p) /\ is_space(t[p + 1]) THEN skip_spaces(t, advance(p, 1)) ELSE p

\* The number of characters that start before byte offset p.
RECURSIVE CharsBefore(_, _, _)
CharsBefore(t, idx, p) ==
    IF idx >= Len(t) \/ idx >= p THEN 0
    ELSE 1 + CharsBefore(t, idx + len_utf8(t[idx + 1]), p)

calc_char_pos(t, p) == CharsBefore(t, 0, p)

is_ident_start(c) == c \in Letters \/ c \in {"_", "-"} \/ c \in LeadBytes
is_ident_char(c) == is_ident_start(c) \/ c \in Digits

RECURSIVE IdentEnd(_, _)
IdentEnd(t, p) ==
    LET n == chars_next(t, p)
    IN  IF n.some /\ is_ident_char(n.c) THEN IdentEnd(t, advance(p, n.len)) ELSE p

parse_ident(t, p) ==
    LET n == chars_next(t, p)
    IN  IF ~n.some \/ ~is_ident_start(n.c)
        THEN [ok |-> FALSE, err |-> "InvalidIdent", pos |-> p, val |-> <<>>]
        ELSE LET e == IdentEnd(t, advance(p, n.len))
             IN  [ok |-> TRUE, err |-> "none", pos |-> e, val |-> SubSeq(t, p + 1, e)]

RECURSIVE QuoteEnd(_, _, _)
QuoteEnd(t, p, q) ==
    IF at_end(t, p) \/ t[p + 1] = q THEN p ELSE QuoteEnd(t, advance(p, 1), q)

parse_quoted_string(t, p) ==
    LET q == t[p + 1]
        e == QuoteEnd(t, advance(p, 1), q)
    IN  IF at_end(t, e)
        THEN [ok |-> FALSE, err |-> "UnexpectedEndOfStream", pos |-> e, val |-> <<>>]
        ELSE [ok |-> TRUE, err |-> "none", pos |-> advance(e, 1),
              val |-> SubSeq(t, p + 2, e)]

(***************************************************************************)
(* The font-family grammar.                                                *)
(***************************************************************************)
RECURSIVE join(_, _)
join(ids, sep) ==
    IF ids = <<>> THEN <<>>
    ELSE IF Len(ids) = 1 THEN ids[1]
    ELSE ids[1] \o sep \o join(Tail(ids), sep)

\* A variant of classify that also takes the capitalised keyword for serif.
classify_ignore_case(joined) ==
    CASE joined = <<"s", "e", "r", "i", "f">> -> Serif
      [] joined = <<"S", "e", "r", "i", "f">> -> Serif
      [] joined = <<"s", "a", "n", "s", "-", "s", "e", "r", "i", "f">> -> SansSerif
      [] joined = <<"c", "u", "r", "s", "i", "v", "e">> -> Cursive
      [] joined = <<"f", "a", "n", "t", "a", "s", "y">> -> Fantasy
      [] joined = <<"m", "o", "n", "o", "s", "p", "a", "c", "e">> -> Monospace
      [] OTHER -> Named(joined)

classify(joined) ==
    CASE joined = <<"s", "e", "r", "i", "f">> -> Serif
      [] joined = <<"s", "a", "n", "s", "-", "s", "e", "r", "i", "f">> -> SansSerif
      [] joined = <<"c", "u", "r", "s", "i", "v", "e">> -> Cursive
      [] joined = <<"f", "a", "n", "t", "a", "s", "y">> -> Fantasy
      [] joined = <<"m", "o", "n", "o", "s", "p", "a", "c", "e">> -> Monospace
      [] OTHER -> Named(joined)

\* A variant of the filter's closure that drops every generic family.
keep_named_only(f) == IF f.kind = "Named" THEN f.name # <<>> ELSE FALSE

keep(f) == IF f.kind = "Named" THEN f.name # <<>> ELSE TRUE

filter_families(fs) == SelectSeq(fs, keep)

(***************************************************************************)
(* Inputs.                                                                 *)
(***************************************************************************)
Fragments ==
    { <<"s", "e", "r", "i", "f">>,
      <<"s", "a", "n", "s", "-", "s", "e", "r", "i", "f">>,
      <<"S", "e", "r", "i", "f">>,
      <<"s", "a", "n", "s">>,
      <<"a">>, <<"1">>, <<"!">>, <<"C3", "A9">>,
      <<" ">>, <<"\t">>, <<",">>,
      <<"'", "s", "e", "r", "i", "f", "'">>,
      <<"'", "C3", "A9", "'">>,
      <<"'">>, <<"\"">> }

Examples ==
    { <<"c", "u", "r", "s", "i", "v", "e">>,
      <<"f", "a", "n", "t", "a", "s", "y">>,
      <<"m", "o", "n", "o", "s", "p", "a", "c", "e">>,
      <<"s", "e", "r", "i", "f", " ", "e", "x", "t", "r", "a">>,
      <<"s", "a", "n", "s", " ", "\t", "s", "e", "r", "i", "f">>,
      <<"T", "i", "m", "e", "s", " ", "N", "e", "w", " ", "R", "o", "m", "a", "n">>,
      <<"'", "T", "i", "m", "e", "s", " ", "N", "e", "w", " ", "R", "o", "m", "a", "n",
        "'", ",", " ", "A", "r", "i", "a", "l", ",", " ",
        "s", "a", "n", "s", "-", "s", "e", "r", "i", "f">> }

RECURSIVE Concat(_)
Concat(ss) == IF ss = <<>> THEN <<>> ELSE Head(ss) \o Concat(Tail(ss))

Texts ==
    Examples \cup
    UNION { { Concat(fs) : fs \in [1..k -> Fragments] } : k \in 0..MaxFrags }

WsRuns == UNION { [1..k -> {<<" ">>, <<"\t">>}] : k \in 1..MaxWs }

(***************************************************************************)
(* parse_font_families, one action per step.                               *)
(***************************************************************************)
DataIdle ==
    /\ entry = "none"
    /\ data = <<>>
    /\ env = [inflated |-> <<>>, inflateOk |-> FALSE, xmlOk |-> FALSE,
              elements |-> 0, sizeOk |-> FALSE]
    /\ dpc = "idle"
    /\ decoded = <<>>
    /\ xmlInput = [text |-> <<>>, allow_dtd |-> FALSE]
    /\ stages = <<>>
    /\ dresult = NoResult

Init ==
    /\ text \in Texts
    /\ pos = 0
    /\ pc = "outer"
    /\ families = <<>>
    /\ idents = <<>>
    /\ inner = NoResult
    /\ result = NoResult
    /\ iterStart = 0
    /\ run = 1
    /\ prev = [text |-> <<>>, result |-> NoResult]
    /\ DataIdle

\* font.rs:54-55  the head of the outer loop, and skip_spaces.
OuterLoop ==
    /\ pc = "outer"
    /\ IF at_end(text, pos)
       THEN /\ pc' = "filter"
            /\ UNCHANGED <<pos, iterStart>>
       ELSE /\ pos' = skip_spaces(text, pos)
            /\ iterStart' = pos
            /\ pc' = "elem"
    /\ UNCHANGED <<text, families, idents, inner, result, run, prev>>
    /\ UNCHANGED dataVars

\* font.rs:57-63, 88  the element's first byte; a quoted element is read whole.
Element ==
    /\ pc = "elem"
    /\ LET ch == curr_byte(text, pos)
       IN  IF ~ch.ok
           THEN /\ inner' = Err(ch.err, 0)
                /\ pc' = "ret"
                /\ UNCHANGED <<pos, families, idents>>
           ELSE IF is_quote(ch.val)
           THEN LET res == parse_quoted_string(text, pos)
                IN  IF res.ok
                    THEN /\ families' = Append(families, Named(res.val))
                         /\ pos' = res.pos
                         /\ pc' = "sep"
                         /\ UNCHANGED <<inner, idents>>
                    ELSE /\ inner' = Err(res.err, 0)
                         /\ pos' = res.pos
                         /\ pc' = "ret"
                         /\ UNCHANGED <<families, idents>>
           ELSE /\ idents' = <<>>
                /\ pc' = "ident"
                /\ UNCHANGED <<pos, families, inner>>
    /\ UNCHANGED <<text, result, iterStart, run, prev>>
    /\ UNCHANGED dataVars

\* A variant of the ident loop that reads one ident per element only.
IdentLoop_single_ident ==
    /\ pc = "ident"
    /\ LET n == chars_next(text, pos)
       IN  IF n.some /\ n.c # "," /\ idents = <<>>
           THEN LET id == parse_ident(text, pos)
                IN  IF id.ok
                    THEN /\ idents' = Append(idents, id.val)
                         /\ pos' = skip_spaces(text, id.pos)
                         /\ pc' = "ident"
                         /\ UNCHANGED <<families, inner>>
                    ELSE /\ inner' = Err(id.err, 0)
                         /\ pc' = "ret"
                         /\ UNCHANGED <<pos, families, idents>>
           ELSE /\ families' = Append(families, classify(join(idents, <<" ">>)))
                /\ pc' = "sep"
                /\ UNCHANGED <<pos, idents, inner>>
    /\ UNCHANGED <<text, result, iterStart, run, prev>>
    /\ UNCHANGED dataVars

\* A variant of the ident loop that takes a failed parse_ident for an empty
\* ident and goes on.
IdentLoop_unwrap_or_default ==
    /\ pc = "ident"
    /\ LET n == chars_next(text, pos)
       IN  IF n.some /\ n.c # ","
           THEN LET id == parse_ident(text, pos)
                IN  /\ idents' = Append(idents, id.val)
                    /\ pos' = skip_spaces(text, id.pos)
                    /\ pc' = "ident"
                    /\ UNCHANGED <<families, inner>>
           ELSE /\ families' = Append(families, classify(join(idents, <<" ">>)))
                /\ pc' = "sep"
                /\ UNCHANGED <<pos, idents, inner>>
    /\ UNCHANGED <<text, result, iterStart, run, prev>>
    /\ UNCHANGED dataVars

\* font.rs:65-88  one iteration of the ident loop; on leaving it the idents are
\* joined, classified and pushed.
IdentLoop ==
    /\ pc = "ident"
    /\ LET n == chars_next(text, pos)
       IN  IF n.some /\ n.c # ","
           THEN LET id == parse_ident(text, pos)
                IN  IF id.ok
                    THEN /\ idents' = Append(idents, id.val)
                         /\ pos' = skip_spaces(text, id.pos)
                         /\ pc' = "ident"
                         /\ UNCHANGED <<families, inner>>
                    ELSE /\ inner' = Err(id.err, 0)
                         /\ pc' = "ret"
                         /\ UNCHANGED <<pos, families, idents>>
           ELSE /\ families' = Append(families, classify(join(idents, <<" ">>)))
                /\ pc' = "sep"
                /\ UNCHANGED <<pos, idents, inner>>
    /\ UNCHANGED <<text, result, iterStart, run, prev>>
    /\ UNCHANGED dataVars

\* A variant of the separator step that advances without reading the byte.
Separator_unchecked_advance ==
    /\ pc = "sep"
    /\ LET b == curr_byte(text, pos)
       IN  IF b.ok /\ b.val # ","
           THEN /\ pc' = "filter"
                /\ UNCHANGED pos
           ELSE /\ pos' = advance(pos, 1)
                /\ pc' = "outer"
    /\ UNCHANGED <<text, families, idents, inner, result, iterStart, run, prev>>
    /\ UNCHANGED dataVars

\* font.rs:90-96  the separator after an element.
Separator ==
    /\ pc = "sep"
    /\ LET b == curr_byte(text, pos)
       IN  IF b.ok
           THEN IF b.val = ","
                THEN /\ pos' = advance(pos, 1)
                     /\ pc' = "outer"
                ELSE /\ pc' = "filter"
                     /\ UNCHANGED pos
           ELSE /\ pc' = "outer"
                /\ UNCHANGED pos
    /\ UNCHANGED <<text, families, idents, inner, result, iterStart, run, prev>>
    /\ UNCHANGED dataVars

\* font.rs:99-107  the filter and the return of the Stream method.
Return ==
    /\ pc = "filter"
    /\ inner' = Ok(filter_families(families))
    /\ pc' = "ret"
    /\ UNCHANGED <<text, pos, families, idents, result, iterStart, run, prev>>
    /\ UNCHANGED dataVars

\* A variant of the exported function that reports the byte offset.
Exported_byte_pos ==
    /\ pc = "ret"
    /\ IF ~inner.ok
       THEN /\ result' = inner
            /\ UNCHANGED pos
       ELSE LET p == skip_spaces(text, pos)
            IN  /\ pos' = p
                /\ result' = IF ~at_end(text, p)
                             THEN Err("UnexpectedData", calc_char_pos(text, 0) + p)
                             ELSE Ok(inner.val)
    /\ pc' = "done"
    /\ UNCHANGED <<text, families, idents, inner, iterStart, run, prev>>
    /\ UNCHANGED dataVars

\* font.rs:10-17  the exported function after the Stream method returned.
Exported ==
    /\ pc = "ret"
    /\ IF ~inner.ok
       THEN /\ result' = inner
            /\ UNCHANGED pos
       ELSE LET p == skip_spaces(text, pos)
            IN  /\ pos' = p
                /\ result' = IF ~at_end(text, p)
                             THEN Err("UnexpectedData", calc_char_pos(text, p))
                             ELSE Ok(inner.val)
    /\ pc' = "done"
    /\ UNCHANGED <<text, families, idents, inner, iterStart, run, prev>>
    /\ UNCHANGED dataVars

\* font.rs:8-9  a second call, on the first call's text followed by whitespace.
CallAgain ==
    /\ pc = "done"
    /\ run = 1
    /\ \E ws \in WsRuns :
         /\ text' = text \o Concat(ws)
         /\ prev' = [text |-> text, result |-> result]
    /\ pos' = 0
    /\ pc' = "outer"
    /\ families' = <<>>
    /\ idents' = <<>>
    /\ inner' = NoResult
    /\ result' = NoResult
    /\ iterStart' = 0
    /\ run' = 2
    /\ UNCHANGED dataVars

Next ==
    \/ OuterLoop
    \/ Element
    \/ IdentLoop
    \/ Separator
    \/ Return
    \/ Exported
    \/ CallAgain

Spec == Init /\ [][Next]_vars

(***************************************************************************)
(* The ingestion pipeline (lib.rs).  Bytes are numbers here.               *)
(***************************************************************************)
ElementsLimit == 1000000

GZipMagic == <<31, 139>>

starts_with(d, prefix) ==
    /\ Len(d) >= Len(prefix)
    /\ SubSeq(d, 1, Len(prefix)) = prefix

is_cont(b) == b \in 128..191

\* std::str::from_utf8(..).is_ok(): well-formed UTF-8 byte sequences.
RECURSIVE from_utf8_ok(_)
from_utf8_ok(b) ==
    IF b = <<>> THEN TRUE
    ELSE LET h == b[1]
             n == Len(b)
         IN  IF h < 128 THEN from_utf8_ok(Tail(b))
             ELSE IF h \in 194..223
             THEN /\ n >= 2
                  /\ is_cont(b[2])
                  /\ from_utf8_ok(SubSeq(b, 3, n))
             ELSE IF h \in 224..239
             THEN /\ n >= 3
                  /\ is_cont(b[2])
                  /\ is_cont(b[3])
                  /\ (h = 224 => b[2] >= 160)
                  /\ (h = 237 => b[2] <= 159)
                  /\ from_utf8_ok(SubSeq(b, 4, n))
             ELSE IF h \in 240..244
             THEN /\ n >= 4
                  /\ is_cont(b[2])
                  /\ is_cont(b[3])
                  /\ is_cont(b[4])
                  /\ (h = 240 => b[2] >= 144)
                  /\ (h = 244 => b[2] <= 143)
                  /\ from_utf8_ok(SubSeq(b, 5, n))
             ELSE FALSE

Tree == <<"tree">>

\* svgtree::Document::parse_tree: the ceiling on the number of elements.
svgtree_parse_tree(elements) ==
    IF elements > ElementsLimit THEN Err("ElementsLimitReached", 0) ELSE Ok(<<"doc">>)

\* converter::convert_doc: the size check, then the scene tree.
converter_convert_doc(sizeOk) ==
    IF sizeOk THEN Ok(Tree) ELSE Err("InvalidSize", 0)

DataBytes == {31, 139, 60, 255}
InflatedBytes == {60, 195, 139}

SeqsUpTo(S, n) == UNION { [1..k -> S] : k \in 0..n }

Entries == {"from_data", "from_str", "from_xmltree"}
ElementCounts == {1, ElementsLimit, ElementsLimit + 1}

\* What the external collaborators (flate2, roxmltree, svgtree, converter)
\* answer for the input of one call.
Envs ==
    { [inflated |-> i, inflateOk |-> io, xmlOk |-> x, elements |-> n, sizeOk |-> z] :
        i \in SeqsUpTo(InflatedBytes, MaxInflated), io \in BOOLEAN,
        x \in BOOLEAN, n \in ElementCounts, z \in BOOLEAN }

FontIdle ==
    /\ text = <<>>
    /\ pos = 0
    /\ pc = "idle"
    /\ families = <<>>
    /\ idents = <<>>
    /\ inner = NoResult
    /\ result = NoResult
    /\ iterStart = 0
    /\ run = 0
    /\ prev = [text |-> <<>>, result |-> NoResult]

\* The inputs a call can get: from_str gets a &str, so well-formed UTF-8; a
\* document handed to from_xmltree was parsed already; inflating succeeds only
\* on data that carries the gzip magic.
DataInit ==
    /\ entry \in Entries
    /\ data \in SeqsUpTo(DataBytes, MaxData)
    /\ env \in Envs
    /\ entry = "from_str" => from_utf8_ok(data)
    /\ entry = "from_xmltree" => data = <<>> /\ env.xmlOk
    /\ entry # "from_data" \/ ~starts_with(data, GZipMagic) =>
            ~env.inflateOk
    /\ ~env.inflateOk => env.inflated = <<>>
    /\ dpc = CASE entry = "from_data" -> "from_data"
               [] entry = "from_str" -> "from_str"
               [] OTHER -> "parse_tree"
    /\ decoded = <<>>
    /\ xmlInput = [text |-> <<>>, allow_dtd |-> FALSE]
    /\ stages = <<>>
    /\ dresult = NoResult
    /\ FontIdle

\* A variant of the branch that looks at the first byte only.
from_data_first_byte ==
    /\ dpc = "from_data"
    /\ IF starts_with(data, <<31>>)
       THEN /\ dpc' = "decompress_svgz"
            /\ UNCHANGED decoded
       ELSE /\ dpc' = "from_utf8"
            /\ decoded' = data
    /\ UNCHANGED <<entry, data, env, xmlInput, stages, dresult>>
    /\ UNCHANGED fontVars

\* lib.rs:218  the branch on the gzip magic.
from_data ==
    /\ dpc = "from_data"
    /\ IF starts_with(data, GZipMagic)
       THEN /\ dpc' = "decompress_svgz"
            /\ UNCHANGED decoded
       ELSE /\ dpc' = "from_utf8"
            /\ decoded' = data
    /\ UNCHANGED <<entry, data, env, xmlInput, stages, dresult>>
    /\ UNCHANGED fontVars

\* lib.rs:219, 249-258  inflate; a failure of the decoder is MalformedGZip.
decompress_svgz ==
    /\ dpc = "decompress_svgz"
    /\ stages' = Append(stages, "inflate")
    /\ IF env.inflateOk
       THEN /\ decoded' = env.inflated
            /\ dpc' = "from_utf8"
            /\ UNCHANGED dresult
       ELSE /\ dresult' = Err("MalformedGZip", 0)
            /\ dpc' = "done"
            /\ UNCHANGED decoded
    /\ UNCHANGED <<entry, data, env, xmlInput>>
    /\ UNCHANGED fontVars

\* lib.rs:220, 223  UTF-8 validation of the inflated or the raw bytes.
from_utf8 ==
    /\ dpc = "from_utf8"
    /\ stages' = Append(stages, "utf8")
    /\ IF from_utf8_ok(decoded)
       THEN /\ dpc' = "from_str"
            /\ UNCHANGED dresult
       ELSE /\ dresult' = Err("NotAnUtf8Str", 0)
            /\ dpc' = "done"
    /\ UNCHANGED <<entry, data, env, decoded, xmlInput>>
    /\ UNCHANGED fontVars

\* lib.rs:229-239  the XML parse.
from_str ==
    /\ dpc = "from_str"
    /\ stages' = Append(stages, "xml")
    /\ xmlInput' = [text |-> IF entry = "from_str" THEN data ELSE decoded,
                    allow_dtd |-> TRUE]
    /\ IF env.xmlOk
       THEN /\ dpc' = "parse_tree"
            /\ UNCHANGED dresult
       ELSE /\ dresult' = Err("ParsingFailed", 0)
            /\ dpc' = "done"
    /\ UNCHANGED <<entry, data, env, decoded>>
    /\ UNCHANGED fontVars

\* A variant of from_xmltree that drops the error of parse_tree.
parse_tree_error_dropped ==
    /\ dpc = "parse_tree"
    /\ stages' = Append(stages, "tree")
    /\ dpc' = "convert_doc"
    /\ UNCHANGED dresult
    /\ UNCHANGED <<entry, data, env, decoded, xmlInput>>
    /\ UNCHANGED fontVars

\* lib.rs:243  svgtree construction, with the ceiling on the element count.
parse_tree ==
    /\ dpc = "parse_tree"
    /\ stages' = Append(stages, "tree")
    /\ LET doc == svgtree_parse_tree(env.elements)
       IN  IF ~doc.ok
           THEN /\ dresult' = doc
                /\ dpc' = "done"
           ELSE /\ dpc' = "convert_doc"
                /\ UNCHANGED dresult
    /\ UNCHANGED <<entry, data, env, decoded, xmlInput>>
    /\ UNCHANGED fontVars

\* lib.rs:244  conversion to the scene tree, with the size check.
convert_doc ==
    /\ dpc = "convert_doc"
    /\ stages' = Append(stages, "convert")
    /\ dresult' = converter_convert_doc(env.sizeOk)
    /\ dpc' = "done"
    /\ UNCHANGED <<entry, data, env, decoded, xmlInput>>
    /\ UNCHANGED fontVars

DataNext ==
    \/ from_data
    \/ decompress_svgz
    \/ from_utf8
    \/ from_str
    \/ parse_tree
    \/ convert_doc

DataSpec == DataInit /\ [][DataNext]_vars

(***************************************************************************)
(* Claims about the pipeline, checked under DataSpec.                      *)
(***************************************************************************)
GZipPrefixed == Len(data) >= 2 /\ data[1] = 31 /\ data[2] = 139

\* What from_str returns, by the collaborators' answers alone.
FromStrAnswer ==
    IF ~env.xmlOk THEN Err("ParsingFailed", 0)
    ELSE IF env.elements > 1000000 THEN Err("ElementsLimitReached", 0)
    ELSE IF ~env.sizeOk THEN Err("InvalidSize", 0)
    ELSE Ok(Tree)

\* C1: from_data branches on the first two bytes only; gzip-prefixed data is
\* inflated and only the inflated bytes are UTF-8-validated, other data is
\* validated raw; MalformedGZip exactly when gzip-prefixed data fails to
\* inflate, NotAnUtf8Str exactly when the bytes to decode are not UTF-8, and
\* otherwise exactly what from_str returns for the decoded text.
C1_FromData ==
    /\ (dpc = "done" /\ entry = "from_data") =>
         LET gzFail == GZipPrefixed /\ ~env.inflateOk
             bytes == IF GZipPrefixed THEN env.inflated ELSE data
         IN  /\ (dresult.err = "MalformedGZip") <=> gzFail
             /\ (dresult.err = "NotAnUtf8Str") <=> (~gzFail /\ ~from_utf8_ok(bytes))
             /\ ("inflate" \in {stages[i] : i \in 1..Len(stages)}) <=> GZipPrefixed
             /\ ~gzFail => decoded = bytes
             /\ (~gzFail /\ from_utf8_ok(bytes)) =>
                    /\ xmlInput.text = bytes
                    /\ dresult = FromStrAnswer
    /\ (dpc = "done" /\ entry = "from_str") =>
         /\ xmlInput.text = data
         /\ dresult = FromStrAnswer

C1_Witness ==
    /\ dpc = "done"
    /\ entry = "from_data"
    /\ GZipPrefixed
    /\ env.inflated = <<195, 139>>
    /\ xmlInput.text = <<195, 139>>
    /\ dresult.ok

StageOrder == <<"inflate", "utf8", "xml", "tree", "convert">>

\* The first stage the entry point runs on this input.
FirstStage ==
    CASE entry = "from_data" -> IF GZipPrefixed THEN 1 ELSE 2
      [] entry = "from_str" -> 3
      [] OTHER -> 4

StageSucceeds(i) ==
    CASE i = 1 -> env.inflateOk
      [] i = 2 -> from_utf8_ok(IF GZipPrefixed THEN env.inflated ELSE data)
      [] i = 3 -> env.xmlOk
      [] i = 4 -> env.elements <= 1000000
      [] OTHER -> env.sizeOk

StageError(i) ==
    CASE i = 1 -> "MalformedGZip"
      [] i = 2 -> "NotAnUtf8Str"
      [] i = 3 -> "ParsingFailed"
      [] i = 4 -> "ElementsLimitReached"
      [] OTHER -> "InvalidSize"

\* C2: the stages run in the order inflate, UTF-8 validation, XML parse (with
\* allow_dtd = true), svgtree construction, conversion; each at most once and
\* only after every earlier one succeeded; the error returned is the first
\* failing stage's, and no tree is returned when a stage failed.  A document
\* over the element ceiling that also lacks a size gives ElementsLimitReached.
C2_StageOrder ==
    LET n == Len(stages)
    IN  /\ \A i \in 1..n : stages[i] = StageOrder[FirstStage + i - 1]
        /\ \A i \in 1..(n - 1) : StageSucceeds(FirstStage + i - 1)
        /\ (n >= 1 /\ dpc # "done") => StageSucceeds(FirstStage + n - 1)
        /\ ("xml" \in {stages[i] : i \in 1..n}) => xmlInput.allow_dtd
        /\ dpc = "done" =>
             /\ n >= 1
             /\ LET last == FirstStage + n - 1
                IN  IF StageSucceeds(last)
                    THEN last = 5 /\ dresult = Ok(Tree)
                    ELSE dresult = Err(StageError(last), 0)
             /\ ~dresult.ok => dresult.val = <<>>
             /\ (env.elements > 1000000 /\ ~env.sizeOk /\ n >= 1 /\ stages[n] \in {"tree", "convert"})
                    => dresult.err = "ElementsLimitReached"

C2_Witness ==
    /\ dpc = "done"
    /\ entry = "from_data"
    /\ GZipPrefixed
    /\ env.elements > 1000000
    /\ ~env.sizeOk
    /\ stages = <<"inflate", "utf8", "xml", "tree">>
    /\ dresult = Err("ElementsLimitReached", 0)

(***************************************************************************)
(* Claims about the font-family grammar, checked under Spec.               *)
(***************************************************************************)
Last(q) == q[Len(q)]

KeywordTable ==
    { <<<<"s", "e", "r", "i", "f">>, "Serif">>,
      <<<<"s", "a", "n", "s", "-", "s", "e", "r", "i", "f">>, "SansSerif">>,
      <<<<"c", "u", "r", "s", "i", "v", "e">>, "Cursive">>,
      <<<<"f", "a", "n", "t", "a", "s", "y">>, "Fantasy">>,
      <<<<"m", "o", "n", "o", "s", "p", "a", "c", "e">>, "Monospace">> }

RECURSIVE DropSpaces(_)
DropSpaces(q) == IF q # <<>> /\ is_space(Head(q)) THEN DropSpaces(Tail(q)) ELSE q

\* q with every run of whitespace made one space and trailing whitespace removed.
RECURSIVE Collapse(_)
Collapse(q) ==
    IF q = <<>> THEN <<>>
    ELSE IF is_space(Head(q))
    THEN LET r == Collapse(DropSpaces(q)) IN IF r = <<>> THEN <<>> ELSE <<" ">> \o r
    ELSE <<Head(q)>> \o Collapse(Tail(q))

\* C3: a quoted element becomes Named(interior) verbatim, also when the
\* interior is a generic keyword; an unquoted element is its idents joined by
\* one space each, and is a generic variant exactly when the joined string is
\* byte for byte one of the five keywords, Named(joined) otherwise.
C3_Classification ==
    pc = "sep" =>
      LET s == skip_spaces(text, iterStart)
          slice == SubSeq(text, s + 1, pos)
          f == Last(families)
      IN  IF is_quote(text[s + 1])
          THEN f = Named(SubSeq(slice, 2, Len(slice) - 1))
          ELSE LET j == Collapse(slice)
               IN  /\ \A kw \in KeywordTable :
                        j = kw[1] => f = [kind |-> kw[2], name |-> <<>>]
                   /\ (\A kw \in KeywordTable : j # kw[1]) => f = Named(j)

C3_Witness ==
    /\ pc = "sep"
    /\ text = <<"s", "a", "n", "s", " ", "\t", "s", "e", "r", "i", "f">>
    /\ families = <<Named(<<"s", "a", "n", "s", " ", "s", "e", "r", "i", "f">>)>>

NotEmptyNamed(f) == f # Named(<<>>)

\* C4: on success the returned list holds no Named(""), holds every generic
\* that was parsed, and is the parsed elements in order without the empty
\* Named entries; "" and ",," give the empty list and "a," gives [Named("a")].
C4_Filter ==
    /\ (pc \in {"ret", "done"} /\ inner.ok) =>
         /\ \A i \in 1..Len(inner.val) : inner.val[i] # Named(<<>>)
         /\ \A i \in 1..Len(families) :
              families[i] \in Generics =>
                \E k \in 1..Len(inner.val) : inner.val[k] = families[i]
         /\ inner.val = SelectSeq(families, NotEmptyNamed)
    /\ (pc = "done" /\ text \in {<<>>, <<",", ",">>}) => result = Ok(<<>>)
    /\ (pc = "done" /\ text = <<"a", ",">>) => result = Ok(<<Named(<<"a">>)>>)

C4_Witness ==
    /\ pc = "done"
    /\ families = <<Serif, Named(<<>>)>>
    /\ result = Ok(<<Serif>>)

FurtherIdents ==
    { <<"e", "x", "t", "r", "a">>, <<"a">>, <<"s", "a", "n", "s">>,
      <<"S", "e", "r", "i", "f">>, <<"s", "e", "r", "i", "f">> }

\* C5 as stated: a generic keyword, whitespace and a further ident with no
\* comma in between is rejected with UnexpectedData at the further ident.
C5_Rejected ==
    \A g \in Generics, w \in FurtherIdents :
      (pc = "done" /\ text = to_string(g) \o <<" ">> \o w) =>
         /\ ~result.ok
         /\ result.err = "UnexpectedData"
         /\ result.at = calc_char_pos(text, Len(to_string(g)) + 1)

\* C5 amended: a generic keyword, whitespace and a further ident with no comma
\* in between is accepted as one family, Named("<keyword> <ident>").
C5_Joined ==
    \A g \in Generics, w \in FurtherIdents :
      (pc = "done" /\ text = to_string(g) \o <<" ">> \o w) =>
         result = Ok(<<Named(to_string(g) \o <<" ">> \o w)>>)

C5_Witness ==
    /\ pc = "done"
    /\ text = <<"s", "e", "r", "i", "f", " ", "e", "x", "t", "r", "a">>
    /\ result = Ok(<<Named(<<"s", "e", "r", "i", "f", " ", "e", "x", "t", "r", "a">>)>>)

\* The number of characters of t that start within its first p bytes.
CharCount(t, p) == Cardinality({i \in 1..p : t[i] \notin ContBytes})

\* C6: the exported function returns UnexpectedData(p) exactly when the Stream
\* method succeeded and input remains after skipping whitespace, p being the
\* character-counted position of the first remaining non-whitespace
\* character; otherwise it returns the Stream method's result or error
\* unchanged, and the Stream method never fails on trailing content.
C6_Exported ==
    pc = "done" =>
      /\ IF inner.ok /\ pos < Len(text)
         THEN /\ ~is_space(text[pos + 1])
              /\ result = Err("UnexpectedData",
                              calc_char_pos(text, 0) + CharCount(text, pos))
         ELSE result = inner
      /\ ~inner.ok => inner.err \in {"UnexpectedEndOfStream", "InvalidIdent"}

C6_Witness ==
    /\ pc = "done"
    /\ text = <<"'", "C3", "A9", "'", " ", "a">>
    /\ inner = Ok(<<Named(<<"C3", "A9">>)>>)
    /\ pos = 5
    /\ result.err = "UnexpectedData"
    /\ result.at # calc_char_pos(text, 0) + pos

\* C7: each generic variant, written by to_string and parsed again, gives the
\* one-element list of that variant.
C7_RoundTrip ==
    \A v \in Generics :
      (pc = "done" /\ text = to_string(v)) => result = Ok(<<v>>)

C7_Witness ==
    /\ pc = "done"
    /\ text = to_string(SansSerif)
    /\ result = Ok(<<SansSerif>>)

\* C8: while parse_font_families runs the offset stays within 0..length and
\* never decreases; the advance over a comma never moves it past the end.
C8_Offset ==
    /\ [](0 <= pos /\ pos <= Len(text))
    /\ [][run' = run => pos' >= pos]_vars

C8_Witness ==
    /\ pc = "outer"
    /\ Len(text) > 1
    /\ text[Len(text)] = ","
    /\ pos = Len(text)

\* C9: trailing whitespace does not change a successful result: if the call
\* on t succeeds with r, the call on t followed by whitespace succeeds with r.
C9_TrailingWhitespace ==
    (pc = "done" /\ run = 2 /\ prev.result.ok) => result = prev.result

\* C10: every iteration of the ident loop and of the outer loop increases
\* the offset, leaves the loop or returns an error.
C10_Progress ==
    [][ /\ (pc = "ident" /\ pc' = "ident") => pos' > pos
        /\ (pc = "sep" /\ pc' = "outer") => pos' > iterStart ]_vars

C10_Witness ==
    /\ pc = "done"
    /\ text = <<"a", " ", "!">>
    /\ inner = Err("InvalidIdent", 0)
    /\ result = inner

====
